---- MODULE Spec2Model ----
(***************************************************************************)
(* The simulation clock of the solar-system viewer (AppContent in App.tsx) *)
(* as a state machine: the React state daysElapsed / isPlaying / speed,    *)
(* the two refs, the host's pending animation-frame callbacks, and one     *)
(* action per handler (specification Spec); the orbital position          *)
(* calculator applied to the planet table (SpecOrbit); and the fun-fact    *)
(* panel PlanetInfo with its requests in flight (SpecInfo, SpecInfoFair).  *)
(*                                                                         *)
(* JavaScript numbers are modelled as fixed-point values with the IEEE     *)
(* special values kept apart: [k |-> "fin", v |-> n] is the number         *)
(* n / Scale, [k |-> "inf", v |-> +-1] is +-Infinity and                   *)
(* [k |-> "nan", v |-> 0] is NaN.  Scale = 160 makes every value the clock *)
(* can produce from tenths of a speed unit and whole milliseconds exact:   *)
(* speed * (ms / 16) is a multiple of 1/160.                               *)
(*                                                                         *)
(* Every UI handler is a discrete DOM event, so React renders and flushes  *)
(* the passive effect of that render synchronously before the next task:   *)
(* a handler together with the effect re-run it causes is one action.      *)
(***************************************************************************)
EXTENDS Integers, Naturals, Sequences, FiniteSets, TLC

\* ------------------------------------------------------------------ bounds
\* Largest animation-frame handle the host hands out (bounds the number of
\* frame requests, hence of ticks and re-subscriptions, in one behaviour).
MaxHandle == 5

\* ------------------------------------------------------------- JS numbers
Scale == 16 * 10

NaN == [k |-> "nan", v |-> 0]
Inf(s) == [k |-> "inf", v |-> s]
Fin(n) == [k |-> "fin", v |-> n]
Lit(n) == Fin(n * Scale)
Zero == Lit(0)

\* isNaN(x)
IsNaN(x) == x.k = "nan"

Sgn(n) == IF n > 0 THEN 1 ELSE IF n < 0 THEN -1 ELSE 0

\* a + b
Add(a, b) ==
  IF IsNaN(a) \/ IsNaN(b) THEN NaN
  ELSE IF a.k = "inf" /\ b.k = "inf" THEN (IF a.v = b.v THEN a ELSE NaN)
  ELSE IF a.k = "inf" THEN a
  ELSE IF b.k = "inf" THEN b
  ELSE Fin(a.v + b.v)

\* a * b
Mul(a, b) ==
  IF IsNaN(a) \/ IsNaN(b) THEN NaN
  ELSE IF a.k = "inf" \/ b.k = "inf"
       THEN (IF Sgn(a.v) * Sgn(b.v) = 0 THEN NaN ELSE Inf(Sgn(a.v) * Sgn(b.v)))
  ELSE Fin((a.v * b.v) \div Scale)

\* a / 16
Div16(a) == IF a.k = "fin" THEN Fin(a.v \div 16) ELSE a

\* a < b for non-NaN a, b
Less(a, b) ==
  IF a.k = "inf" THEN a.v < 0 /\ ~(b.k = "inf" /\ b.v < 0)
  ELSE IF b.k = "inf" THEN b.v > 0
  ELSE a.v < b.v

\* Math.min(a, b)
MathMin(a, b) ==
  IF IsNaN(a) \/ IsNaN(b) THEN NaN
  ELSE IF Less(b, a) THEN b ELSE a

\* Math.floor(a)
MathFloor(a) == IF a.k = "fin" THEN Fin((a.v \div Scale) * Scale) ELSE a

\* A difference of two timestamps (whole milliseconds) as a number.
FromMs(ms) == Lit(ms)

\* ------------------------------------------------------------- parseFloat
Digits == {"0", "1", "2", "3", "4", "5", "6", "7", "8", "9"}

DigitVal(c) ==
  CASE c = "0" -> 0 [] c = "1" -> 1 [] c = "2" -> 2 [] c = "3" -> 3
    [] c = "4" -> 4 [] c = "5" -> 5 [] c = "6" -> 6 [] c = "7" -> 7
    [] c = "8" -> 8 [] c = "9" -> 9

RECURSIVE DigitsPrefixLen(_)
DigitsPrefixLen(s) ==
  IF Len(s) > 0 /\ Head(s) \in Digits THEN 1 + DigitsPrefixLen(Tail(s)) ELSE 0

RECURSIVE IntOf(_)
IntOf(s) ==
  IF Len(s) = 0 THEN 0
  ELSE 10 * IntOf(SubSeq(s, 1, Len(s) - 1)) + DigitVal(s[Len(s)])

RECURSIVE Pow10(_)
Pow10(n) == IF n = 0 THEN 1 ELSE 10 * Pow10(n - 1)

\* parseFloat(s) for a string given as a sequence of characters; the
\* literal Infinity is one token.  An optional sign, then the longest
\* prefix of digits with an optional fraction; NaN when there is none.
ParseFloat(s) ==
  LET neg    == Len(s) > 0 /\ s[1] = "-"
      pos    == Len(s) > 0 /\ s[1] = "+"
      body   == IF neg \/ pos THEN Tail(s) ELSE s
      sign   == IF neg THEN -1 ELSE 1
      n      == DigitsPrefixLen(body)
      rest   == SubSeq(body, n + 1, Len(body))
      hasDot == Len(rest) > 0 /\ rest[1] = "."
      frac   == IF hasDot THEN Tail(rest) ELSE <<>>
      m      == DigitsPrefixLen(frac)
  IN  IF Len(body) > 0 /\ body[1] = "Infinity" THEN Inf(sign)
      ELSE IF n = 0 /\ m = 0 THEN NaN
      ELSE Fin(sign * (IntOf(SubSeq(body, 1, n)) * Scale
                       + (IntOf(SubSeq(frac, 1, m)) * Scale) \div Pow10(m)))

\* ------------------------------------------------------------------ inputs
\* e.target.value of the timeline slider's change event.
ScrubInputs == { <<>>, <<"5">>, <<"-", "5">>, <<"Infinity">> }

\* e.target.value of the speed slider's change event.
SpeedInputs == { <<"0", ".", "5">>, <<"2">>, <<"-", "1">>, <<"Infinity">> }

\* Milliseconds between two consecutive host frames.
FrameGaps == {16, 100, 10000}

\* ----------------------------------------------------- orbital mechanics
\* Number of 30-day steps of daysOffset the calculator is applied to.
MaxOrbitSample == 10

\* The planet table: distance and eccentricity in thousandths, period in
\* hundredths of a year.
PLANETS ==
  { [name |-> "Mercury", distance |-> 10000, period |-> 24,    eccentricity |-> 200],
    [name |-> "Venus",   distance |-> 15000, period |-> 62,    eccentricity |-> 7],
    [name |-> "Earth",   distance |-> 20000, period |-> 100,   eccentricity |-> 17],
    [name |-> "Mars",    distance |-> 26000, period |-> 188,   eccentricity |-> 90],
    [name |-> "Jupiter", distance |-> 38000, period |-> 1186,  eccentricity |-> 48],
    [name |-> "Saturn",  distance |-> 52000, period |-> 2945,  eccentricity |-> 56],
    [name |-> "Uranus",  distance |-> 68000, period |-> 8400,  eccentricity |-> 46],
    [name |-> "Neptune", distance |-> 82000, period |-> 16481, eccentricity |-> 10],
    [name |-> "Pluto",   distance |-> 95000, period |-> 24800, eccentricity |-> 248] }

NoPlanet == "null"

\* daysOffset values handed to the calculator: what the clock exposes.
OrbitDays == {Lit(30 * k) : k \in 0..MaxOrbitSample} \cup {Lit(-5), Inf(1)}

\* Math.sin of an angle in whole degrees, in thousandths (Bhaskara's
\* rational approximation, exact at 0, 30, 90, 150 and 180 degrees).
SinDeg(x) ==
  LET r == x % 360
      h == IF r <= 180 THEN r ELSE r - 180
      s == (4000 * (h * (180 - h))) \div (40500 - h * (180 - h))
  IN  IF r <= 180 THEN s ELSE 0 - s

\* Math.cos of an angle in whole degrees, in thousandths.
CosDeg(x) == SinDeg(x + 90)

\* Math.sqrt(1 - eccentricity ** 2) in thousandths, NaN for a negative
\* argument.
SqrtOneMinusSq(e) ==
  IF e * e > 1000000 THEN NaN
  ELSE Fin(CHOOSE r \in 0..1000 :
             r * r <= 1000000 - e * e /\ 1000000 - e * e < (r + 1) * (r + 1))

\* angle = (daysOffset / periodInDays) * 2 * Math.PI with
\* periodInDays = period * 365.25, in whole degrees; daysOffset is a clock
\* number (n / Scale days).
AngleDeg(planet, daysOffset) ==
  IF daysOffset.k = "fin"
  THEN Fin((daysOffset.v * 300) \div (487 * planet.period))
  ELSE daysOffset

calculatePlanetPosition_fromCenter(planet, daysOffset) ==
  LET angle == AngleDeg(planet, daysOffset)
      root  == SqrtOneMinusSq(planet.eccentricity)
      b     == IF IsNaN(root) THEN NaN
               ELSE Fin((planet.distance * root.v) \div 1000)
      x     == IF angle.k = "fin"
               THEN Fin((planet.distance * CosDeg(angle.v)) \div 1000)
               ELSE NaN
      z     == IF angle.k = "fin" /\ ~IsNaN(b)
               THEN Fin((b.v * SinDeg(angle.v)) \div 1000)
               ELSE NaN
  IN  <<x, Fin(0), z>>

\* calculatePlanetPosition: [x, 0, z] in thousandths of a scene unit.
calculatePlanetPosition(planet, daysOffset) ==
  LET angle       == AngleDeg(planet, daysOffset)
      a           == planet.distance
      root        == SqrtOneMinusSq(planet.eccentricity)
      b           == IF IsNaN(root) THEN NaN
                     ELSE Fin((planet.distance * root.v) \div 1000)
      focusOffset == (planet.distance * planet.eccentricity) \div 1000
      x           == IF angle.k = "fin"
                     THEN Fin((a * CosDeg(angle.v)) \div 1000 - focusOffset)
                     ELSE NaN
      z           == IF angle.k = "fin" /\ ~IsNaN(b)
                     THEN Fin((b.v * SinDeg(angle.v)) \div 1000)
                     ELSE NaN
  IN  <<x, Fin(0), z>>

\* ------------------------------------------------------------------- state
Undefined == -1

VARIABLES
  daysElapsed,      \* useState(0)
  isPlaying,        \* useState(true)
  speed,            \* useState(1)
  requestRef,       \* useRef: handle of the last requested frame, 0 = undefined
  previousTimeRef,  \* useRef: timestamp of the last tick, Undefined before it
  frames,           \* the host's pending animation-frame callbacks
  nextHandle,       \* the host's next animation-frame handle
  now,              \* timestamp of the host's last frame
  mounted,          \* AppContent is mounted
  last,             \* history: the last operation and the state it started from
  seen,             \* history: kinds of slider input so far; time of a pause
                    \* that no playing tick has followed yet
  placed,           \* the last position computed for a planet mesh
  apiKey,           \* process.env.API_KEY is set
  selectedPlanet,   \* useState<PlanetData | null>(null): a planet name or NoPlanet
  fact,             \* PlanetInfo: useState(""), a string as a tuple of pieces
  loading,          \* PlanetInfo: useState(false)
  inflight,         \* getPlanetFunFact calls whose promise has not settled
  nextRequest,      \* history: number of the next getPlanetFunFact call
  shown             \* history: the last PlanetInfo operation, and the request
                    \* whose response is the current fact

clockVars == <<daysElapsed, isPlaying, speed, requestRef, previousTimeRef,
               frames, nextHandle, now, mounted, last, seen>>

orbitVars == <<placed>>

infoVars == <<apiKey, selectedPlanet, fact, loading, inflight, nextRequest, shown>>

vars == <<clockVars, orbitVars, infoVars>>

\* The animate closure of a render: it captures that render's isPlaying
\* and speed.
Callback(id, p, s) == [id |-> id, isPlaying |-> p, speed |-> s]

\* History of an operation: its name, argument and time, the state it
\* started from and, for a tick that directly follows a scrub, the value
\* that scrub was given and the value it replaced.
Snapshot(op, arg, time) ==
  [op |-> op, arg |-> arg, time |-> time,
   days |-> daysElapsed, playing |-> isPlaying, speed |-> speed,
   prevTime |-> previousTimeRef, ref |-> requestRef, pending |-> frames,
   clock |-> now, pausedAt |-> seen.pausedAt,
   afterScrub |-> op = "tick" /\ last.op = "scrub",
   scrubbedTo |-> IF op = "tick" /\ last.op = "scrub" THEN last.arg ELSE Zero,
   scrubbedFrom |-> IF op = "tick" /\ last.op = "scrub" THEN last.days ELSE Zero]

InitClock ==
  /\ daysElapsed = Zero
  /\ isPlaying = TRUE
  /\ speed = Lit(1)
  /\ requestRef = 1
  /\ previousTimeRef = Undefined
  /\ frames = {Callback(1, TRUE, Lit(1))}
  /\ nextHandle = 2
  /\ now = 0
  /\ mounted = TRUE
  /\ last = [op |-> "init", arg |-> Zero, time |-> 0,
             days |-> Zero, playing |-> TRUE, speed |-> Lit(1),
             prevTime |-> Undefined, ref |-> 0, pending |-> {},
             clock |-> 0, pausedAt |-> Undefined, afterScrub |-> FALSE,
             scrubbedTo |-> Zero, scrubbedFrom |-> Zero]
  /\ seen = [nanScrub |-> FALSE, wild |-> FALSE, pausedAt |-> Undefined]

InitOrbit ==
  placed = [planet |-> NoPlanet, days |-> Zero,
            position |-> <<Fin(0), Fin(0), Fin(0)>>]

\* PlanetInfo before any planet was clicked.
InitPanel ==
  /\ selectedPlanet = NoPlanet
  /\ fact = <<>>
  /\ loading = FALSE
  /\ inflight = {}
  /\ nextRequest = 1
  /\ shown = [op |-> "init", request |-> 0, planet |-> NoPlanet,
              outcome |-> "none"]

Init == InitClock /\ InitOrbit /\ InitPanel /\ apiKey = TRUE

\* --------------------------------------------------------- tick (animate)
cappedDelta_uncapped(deltaTime) == deltaTime

\* Math.min(deltaTime, 100)
cappedDelta(deltaTime) == MathMin(deltaTime, Lit(100))

updater_noNaNCheck(prev, spd, capped) == Add(prev, Mul(spd, Div16(capped)))

updater_subtracts(prev, spd, capped) ==
  IF IsNaN(prev) THEN Zero
  ELSE Add(prev, Mul(Mul(spd, Div16(capped)), Lit(-1)))

updater_addsAfterReset(prev, spd, capped) ==
  Add(IF IsNaN(prev) THEN Zero ELSE prev, Mul(spd, Div16(capped)))

\* The functional update handed to setDaysElapsed.
updater(prev, spd, capped) ==
  IF IsNaN(prev) THEN Zero ELSE Add(prev, Mul(spd, Div16(capped)))

tickDays_ignoresPause(cb, days, prevTime, time) ==
  IF prevTime # Undefined
  THEN updater(days, cb.speed, cappedDelta(FromMs(time - prevTime)))
  ELSE days

tickDays_noFirstCheck(cb, days, prevTime, time) ==
  IF cb.isPlaying
  THEN updater(days, cb.speed,
               cappedDelta(FromMs(time - (IF prevTime = Undefined THEN 0
                                          ELSE prevTime))))
  ELSE days

\* The value of daysElapsed after the callback cb has run with the given
\* time on a clock whose previous timestamp is prevTime.
tickDays(cb, days, prevTime, time) ==
  IF prevTime # Undefined /\ cb.isPlaying
  THEN updater(days, cb.speed, cappedDelta(FromMs(time - prevTime)))
  ELSE days

animate_recordsOnlyWhenPlaying(cb, time) ==
  /\ daysElapsed' = IF mounted
                    THEN tickDays(cb, daysElapsed, previousTimeRef, time)
                    ELSE daysElapsed
  /\ previousTimeRef' = IF cb.isPlaying THEN time ELSE previousTimeRef
  /\ requestRef' = nextHandle
  /\ frames' = (frames \ {cb}) \cup {Callback(nextHandle, cb.isPlaying, cb.speed)}
  /\ nextHandle' = nextHandle + 1

animate_forgetsHandle(cb, time) ==
  /\ daysElapsed' = IF mounted
                    THEN tickDays(cb, daysElapsed, previousTimeRef, time)
                    ELSE daysElapsed
  /\ previousTimeRef' = time
  /\ requestRef' = requestRef
  /\ frames' = (frames \ {cb}) \cup {Callback(nextHandle, cb.isPlaying, cb.speed)}
  /\ nextHandle' = nextHandle + 1

animate_staleDays(cb, time) ==
  /\ daysElapsed' = IF mounted
                    THEN tickDays(cb, IF last.op = "scrub" THEN last.days
                                      ELSE daysElapsed,
                                  previousTimeRef, time)
                    ELSE daysElapsed
  /\ previousTimeRef' = time
  /\ requestRef' = nextHandle
  /\ frames' = (frames \ {cb}) \cup {Callback(nextHandle, cb.isPlaying, cb.speed)}
  /\ nextHandle' = nextHandle + 1

\* The host runs the pending callback cb at the frame with timestamp time.
\* A state update of an unmounted component is dropped by React.
animate(cb, time) ==
  /\ daysElapsed' = IF mounted
                    THEN tickDays(cb, daysElapsed, previousTimeRef, time)
                    ELSE daysElapsed
  /\ previousTimeRef' = time
  /\ requestRef' = nextHandle
  /\ frames' = (frames \ {cb}) \cup {Callback(nextHandle, cb.isPlaying, cb.speed)}
  /\ nextHandle' = nextHandle + 1

Tick ==
  \E cb \in frames, gap \in FrameGaps :
    /\ nextHandle <= MaxHandle
    /\ animate(cb, now + gap)
    /\ now' = now + gap
    /\ UNCHANGED <<orbitVars, infoVars>>
    /\ last' = Snapshot("tick", Zero, now + gap)
    /\ seen' = [seen EXCEPT !.pausedAt = IF isPlaying THEN Undefined ELSE @]
    /\ UNCHANGED <<isPlaying, speed, mounted>>

\* ------------------------------------------------- effect on [isPlaying, speed]
cleanup_cancelsNothing(pending, ref) == pending

\* The effect's cleanup: cancelAnimationFrame(requestRef.current) if set.
cleanup(pending, ref) ==
  IF ref # 0 THEN {cb \in pending : cb.id # ref} ELSE pending

effect_ignoresSpeed(p, s) ==
  IF p # isPlaying
  THEN /\ nextHandle <= MaxHandle
       /\ frames' = cleanup(frames, requestRef) \cup {Callback(nextHandle, p, s)}
       /\ requestRef' = nextHandle
       /\ nextHandle' = nextHandle + 1
  ELSE UNCHANGED <<frames, requestRef, nextHandle>>

\* The render with state (p, s) committed: when a dependency changed, the
\* previous effect is cleaned up and the effect runs with the new closure.
effect(p, s) ==
  IF p # isPlaying \/ s # speed
  THEN /\ nextHandle <= MaxHandle
       /\ frames' = cleanup(frames, requestRef) \cup {Callback(nextHandle, p, s)}
       /\ requestRef' = nextHandle
       /\ nextHandle' = nextHandle + 1
  ELSE UNCHANGED <<frames, requestRef, nextHandle>>

\* ---------------------------------------------------------------- handlers
togglePlay_alwaysPlays ==
  /\ mounted
  /\ isPlaying' = TRUE
  /\ effect(TRUE, speed)
  /\ UNCHANGED <<orbitVars, infoVars>>
  /\ last' = Snapshot("toggle", Zero, now)
  /\ seen' = [seen EXCEPT !.pausedAt = IF isPlaying THEN now ELSE @]
  /\ UNCHANGED <<daysElapsed, speed, previousTimeRef, now, mounted>>

\* onClick of the play/pause button: setIsPlaying(!isPlaying)
togglePlay ==
  /\ mounted
  /\ isPlaying' = ~isPlaying
  /\ effect(~isPlaying, speed)
  /\ UNCHANGED <<orbitVars, infoVars>>
  /\ last' = Snapshot("toggle", Zero, now)
  /\ seen' = [seen EXCEPT !.pausedAt = IF isPlaying THEN now ELSE @]
  /\ UNCHANGED <<daysElapsed, speed, previousTimeRef, now, mounted>>

handleReset_keepsPlaying ==
  /\ mounted
  /\ daysElapsed' = Zero
  /\ UNCHANGED <<orbitVars, infoVars>>
  /\ last' = Snapshot("reset", Zero, now)
  /\ UNCHANGED <<isPlaying, speed, requestRef, previousTimeRef, frames,
                 nextHandle, now, mounted, seen>>

handleReset ==
  /\ mounted
  /\ daysElapsed' = Zero
  /\ isPlaying' = FALSE
  /\ effect(FALSE, speed)
  /\ UNCHANGED <<orbitVars, infoVars>>
  /\ last' = Snapshot("reset", Zero, now)
  /\ seen' = [seen EXCEPT !.pausedAt = IF isPlaying THEN now ELSE @]
  /\ UNCHANGED <<speed, previousTimeRef, now, mounted>>

Wild(x) == x.k = "inf" \/ (x.k = "fin" /\ x.v < 0)

scrub_forgetsPreviousTime(value) ==
  /\ mounted
  /\ daysElapsed' = ParseFloat(value)
  /\ previousTimeRef' = Undefined
  /\ UNCHANGED <<orbitVars, infoVars>>
  /\ last' = Snapshot("scrub", ParseFloat(value), now)
  /\ seen' = [seen EXCEPT !.nanScrub = @ \/ IsNaN(ParseFloat(value)),
                          !.wild = @ \/ Wild(ParseFloat(value))]
  /\ UNCHANGED <<isPlaying, speed, requestRef, frames, nextHandle, now, mounted>>

\* onChange of the timeline slider: setDaysElapsed(parseFloat(e.target.value))
scrub(value) ==
  /\ mounted
  /\ daysElapsed' = ParseFloat(value)
  /\ UNCHANGED <<orbitVars, infoVars>>
  /\ last' = Snapshot("scrub", ParseFloat(value), now)
  /\ seen' = [seen EXCEPT !.nanScrub = @ \/ IsNaN(ParseFloat(value)),
                          !.wild = @ \/ Wild(ParseFloat(value))]
  /\ UNCHANGED <<isPlaying, speed, requestRef, previousTimeRef, frames,
                 nextHandle, now, mounted>>

changeSpeed_rescalesDays(value) ==
  /\ mounted
  /\ speed' = ParseFloat(value)
  /\ daysElapsed' = Mul(daysElapsed, ParseFloat(value))
  /\ effect(isPlaying, ParseFloat(value))
  /\ UNCHANGED <<orbitVars, infoVars>>
  /\ last' = Snapshot("setSpeed", ParseFloat(value), now)
  /\ seen' = [seen EXCEPT !.wild = @ \/ Wild(ParseFloat(value))]
  /\ UNCHANGED <<isPlaying, previousTimeRef, now, mounted>>

\* onChange of the speed slider: setSpeed(parseFloat(e.target.value))
changeSpeed(value) ==
  /\ mounted
  /\ speed' = ParseFloat(value)
  /\ effect(isPlaying, ParseFloat(value))
  /\ UNCHANGED <<orbitVars, infoVars>>
  /\ last' = Snapshot("setSpeed", ParseFloat(value), now)
  /\ seen' = [seen EXCEPT !.wild = @ \/ Wild(ParseFloat(value))]
  /\ UNCHANGED <<daysElapsed, isPlaying, previousTimeRef, now, mounted>>

\* Teardown: the component unmounts and the effect's cleanup runs.
unmount ==
  /\ mounted
  /\ mounted' = FALSE
  /\ frames' = cleanup(frames, requestRef)
  /\ UNCHANGED <<orbitVars, infoVars>>
  /\ last' = Snapshot("unmount", Zero, now)
  /\ UNCHANGED <<daysElapsed, isPlaying, speed, requestRef, previousTimeRef,
                 nextHandle, now, seen>>

Scrub == \E value \in ScrubInputs : scrub(value)

ChangeSpeed == \E value \in SpeedInputs : changeSpeed(value)

Next ==
  \/ Tick
  \/ togglePlay
  \/ handleReset
  \/ Scrub
  \/ ChangeSpeed
  \/ unmount

Spec == Init /\ [][Next]_vars

\* ------------------------------------------------------ planet placement
\* useFrame of a Planet mesh: the position is computed from the planet and
\* the daysElapsed prop.
placePlanet ==
  \E planet \in PLANETS, daysOffset \in OrbitDays :
    /\ placed' = [planet |-> planet.name, days |-> daysOffset,
                  position |-> calculatePlanetPosition(planet, daysOffset)]
    /\ UNCHANGED <<clockVars, infoVars>>

NextOrbit == placePlanet

SpecOrbit == Init /\ [][NextOrbit]_vars

\* ------------------------------------------------------------- PlanetInfo
\* Number of getPlanetFunFact calls in one behaviour.
MaxRequests == 3

\* What ai.models.generateContent does with a request: it resolves with a
\* text, resolves without text, or throws.
ApiOutcomes == {"text", "empty", "error"}

\* response.text of a successful reply about the named planet.
ReplyText(planetName) == <<"fact about", planetName>>

getPlanetFunFact_noCatch(planetName, key, outcome) ==
  IF ~key
  THEN [settled |-> "resolved",
        value |-> <<"API Key unavailable. Unable to fetch data.">>]
  ELSE IF outcome = "error"
  THEN [settled |-> "rejected", value |-> <<>>]
  ELSE [settled |-> "resolved",
        value |-> IF outcome = "empty" THEN <<"No information available.">>
                  ELSE ReplyText(planetName)]

\* getPlanetFunFact: how the returned promise settles, and with what.
getPlanetFunFact(planetName, key, outcome) ==
  IF ~key
  THEN [settled |-> "resolved",
        value |-> <<"API Key unavailable. Unable to fetch data.">>]
  ELSE IF outcome = "error"
  THEN [settled |-> "resolved",
        value |-> <<"Unable to contact the Cosmic Archive (Gemini API Error).">>]
  ELSE [settled |-> "resolved",
        value |-> LET text == IF outcome = "empty" THEN <<>>
                              ELSE ReplyText(planetName)
                  IN  IF text = <<>> THEN <<"No information available.">>
                      ELSE text]

\* The .then callback of PlanetInfo's effect, run when the promise is
\* fulfilled; a rejected promise runs nothing.
onFact(result, request, outcome) ==
  IF result.settled = "resolved"
  THEN /\ fact' = result.value
       /\ loading' = FALSE
       /\ shown' = [op |-> "settle", request |-> request.request,
                    planet |-> request.planet, outcome |-> outcome]
  ELSE /\ UNCHANGED <<fact, loading>>
       /\ shown' = [shown EXCEPT !.op = "settle", !.outcome = outcome]

\* A click on a planet mesh: setSelectedPlanet(planet), then PlanetInfo's
\* effect on [planet].  Without an API key getPlanetFunFact returns before
\* any await, so its promise is fulfilled in the same task.
selectPlanet(planetName) ==
  /\ planetName # selectedPlanet
  /\ nextRequest <= MaxRequests
  /\ selectedPlanet' = planetName
  /\ nextRequest' = nextRequest + 1
  /\ IF apiKey
     THEN /\ fact' = <<>>
          /\ loading' = TRUE
          /\ inflight' = inflight \cup
                           {[request |-> nextRequest, planet |-> planetName]}
          /\ shown' = [op |-> "select", request |-> 0, planet |-> NoPlanet,
                       outcome |-> "none"]
     ELSE /\ onFact(getPlanetFunFact(planetName, apiKey, "none"),
                    [request |-> nextRequest, planet |-> planetName], "nokey")
          /\ UNCHANGED inflight
  /\ UNCHANGED <<apiKey, clockVars, orbitVars>>

\* onClose: setSelectedPlanet(null); the effect does nothing for null.
closePanel ==
  /\ selectedPlanet # NoPlanet
  /\ selectedPlanet' = NoPlanet
  /\ shown' = [shown EXCEPT !.op = "close"]
  /\ UNCHANGED <<apiKey, fact, loading, inflight, nextRequest, clockVars,
                 orbitVars>>

\* The promise of a call in flight settles.
settle(request, outcome) ==
  /\ request \in inflight
  /\ inflight' = inflight \ {request}
  /\ onFact(getPlanetFunFact(request.planet, apiKey, outcome), request, outcome)
  /\ UNCHANGED <<apiKey, selectedPlanet, nextRequest, clockVars, orbitVars>>

SelectPlanet == \E planet \in PLANETS : selectPlanet(planet.name)

Settle == \E request \in inflight, outcome \in ApiOutcomes : settle(request, outcome)

NextInfo ==
  \/ SelectPlanet
  \/ closePanel
  \/ Settle

InitInfo == InitClock /\ InitOrbit /\ InitPanel /\ apiKey \in BOOLEAN

SpecInfo == InitInfo /\ [][NextInfo]_vars

\* Every call in flight settles some time: the promise of generateContent
\* is fulfilled or rejected.
SpecInfoFair == SpecInfo /\ WF_vars(Settle)

\* --------------------------------------------------------------- consumers
sceneDays_raw(d) == d

\* The daysElapsed prop handed to SolarSystemScene.
sceneDays(d) == IF IsNaN(d) THEN Zero ELSE d

\* The value attribute of the timeline slider.
timelineValue(d) == IF IsNaN(d) THEN Zero ELSE d

\* safeDays, shown as "Simulation Day".
safeDays(d) == IF IsNaN(d) THEN Zero ELSE MathFloor(d)

TypeOK ==
  /\ daysElapsed.k \in {"fin", "inf", "nan"}
  /\ isPlaying \in BOOLEAN
  /\ requestRef \in 0..MaxHandle
  /\ nextHandle \in 1..(MaxHandle + 1)

\* ------------------------------------------------------------------ claims
\* The last operation was a tick that ran while the clock was Playing and
\* had a previous timestamp to measure from.
TickedPlaying == last.op = "tick" /\ last.playing /\ last.prevTime # Undefined

\* Milliseconds between the last tick and the one before it.
DeltaMs == last.time - last.prevTime

Min100(m) == IF m < 100 THEN m ELSE 100

\* post is pre advanced by spd * min(m, 100) / 16, in IEEE arithmetic.
NormalIncrement(pre, post, spd, m) ==
  IF pre.k = "fin" /\ spd.k = "fin"
  THEN post.k = "fin" /\ 16 * (post.v - pre.v) = spd.v * Min100(m)
  ELSE IF spd.k = "inf" THEN post = Add(pre, spd)
  ELSE post = pre

\* C1: reset() leaves exactly elapsedDays = 0, isPlaying = false and the
\* speed multiplier it found, from Playing or Paused, any elapsedDays (NaN
\* included) and any speed.
C1_ResetState ==
  last.op = "reset" =>
    /\ daysElapsed = Zero
    /\ isPlaying = FALSE
    /\ speed = last.speed

C1_Witness ==
  /\ last.op = "reset"
  /\ last.playing
  /\ IsNaN(last.days)
  /\ last.speed # Lit(1)

\* C2: a tick that runs while isPlaying is false leaves elapsedDays as it
\* was, whatever the timestamps.
C2_PausedTickKeepsDays ==
  (last.op = "tick" /\ ~last.playing) => daysElapsed = last.days

C2_Witness ==
  /\ last.op = "tick"
  /\ ~last.playing
  /\ last.prevTime # Undefined
  /\ DeltaMs >= 100
  /\ last.days # Zero

C5_ConsumersNeverNaN ==
  /\ ~IsNaN(sceneDays(daysElapsed))
  /\ ~IsNaN(timelineValue(daysElapsed))
  /\ ~IsNaN(safeDays(daysElapsed))
  /\ IsNaN(daysElapsed) =>
        /\ sceneDays(daysElapsed) = Zero
        /\ timelineValue(daysElapsed) = Zero
        /\ safeDays(daysElapsed) = Zero

C5_Witness == IsNaN(daysElapsed) /\ last.op = "scrub" /\ ~IsNaN(last.days)

\* C6 as stated: the elapsedDays value exposed to consumers is finite and
\* non-negative, whatever numbers scrub and setSpeed were given.
C6_Original ==
  /\ sceneDays(daysElapsed).k = "fin"
  /\ sceneDays(daysElapsed).v >= 0

\* C6 (amended): the value exposed to consumers is never NaN, and it is
\* finite and non-negative as long as no scrub value and no speed given so
\* far was negative or infinite.
C6_FiniteNonNegative ==
  /\ ~IsNaN(sceneDays(daysElapsed))
  /\ ~seen.wild =>
        /\ sceneDays(daysElapsed).k = "fin"
        /\ sceneDays(daysElapsed).v >= 0
        /\ safeDays(daysElapsed).k = "fin"
        /\ safeDays(daysElapsed).v >= 0

C6_Witness ==
  /\ ~seen.wild
  /\ seen.nanScrub
  /\ TickedPlaying
  /\ last.speed # Lit(1)
  /\ daysElapsed.k = "fin"
  /\ daysElapsed.v > last.days.v
  /\ last.days.v > 0

\* C7: the play/pause handler turns Paused into Playing and Playing into
\* Paused, and changes neither elapsedDays nor the speed multiplier.
C7_TogglePlay ==
  last.op = "toggle" =>
    /\ isPlaying = ~last.playing
    /\ daysElapsed = last.days
    /\ speed = last.speed

C7_Witness ==
  /\ last.op = "toggle"
  /\ last.playing
  /\ ~isPlaying
  /\ last.days # Zero

\* C8: scrub is accepted in Playing and in Paused state and changes only
\* elapsedDays: isPlaying, the speed multiplier and the recorded previous
\* timestamp stay as they were.
C8_ScrubFrame ==
  /\ mounted => ENABLED Scrub
  /\ last.op = "scrub" =>
        /\ daysElapsed = last.arg
        /\ isPlaying = last.playing
        /\ speed = last.speed
        /\ previousTimeRef = last.prevTime
        /\ requestRef = last.ref
        /\ frames = last.pending

C8_Witness ==
  /\ last.op = "scrub"
  /\ last.playing
  /\ last.prevTime # Undefined
  /\ daysElapsed # last.days

\* C9: setSpeed changes only the speed multiplier: elapsedDays and
\* isPlaying are unchanged right after it, also when it re-subscribes the
\* frame callback.
C9_SetSpeedFrame ==
  last.op = "setSpeed" =>
    /\ speed = last.arg
    /\ daysElapsed = last.days
    /\ isPlaying = last.playing
    /\ previousTimeRef = last.prevTime

C9_Witness ==
  /\ last.op = "setSpeed"
  /\ speed # last.speed
  /\ requestRef # last.ref
  /\ last.days.k = "fin"
  /\ last.days.v > 0

\* C10: once the effect's cleanup has run at teardown, no animate callback
\* is pending or runs again, and elapsedDays and the previous timestamp
\* stay as the cancellation found them.
C10_CancelledForGood ==
  ~mounted =>
    /\ frames = {}
    /\ last.op = "unmount"
    /\ daysElapsed = last.days
    /\ previousTimeRef = last.prevTime

C10_Witness ==
  /\ ~mounted
  /\ last.pending # {}
  /\ last.prevTime # Undefined
  /\ nextHandle <= MaxHandle

\* The planet record of the mesh that was placed last.
PlacedPlanet == CHOOSE planet \in PLANETS : planet.name = placed.planet

\* C11: at elapsedDays = 0 calculatePlanetPosition returns
\* (distance - distance * eccentricity, 0, 0) for every body, and its y
\* component is 0 for every body and every elapsedDays.
C11_PositionAtEpoch ==
  placed.planet # NoPlanet =>
    /\ placed.position[2] = Fin(0)
    /\ placed.days = Zero =>
          placed.position =
            << Fin(PlacedPlanet.distance
                   - (PlacedPlanet.distance * PlacedPlanet.eccentricity) \div 1000),
               Fin(0), Fin(0) >>

C11_Witness ==
  /\ placed.planet = "Earth"
  /\ placed.days = Zero
  /\ placed.position = <<Fin(19660), Fin(0), Fin(0)>>

\* C12: the first tick after the clock is created only records its
\* timestamp; elapsedDays is unchanged by it, Playing or Paused, whatever
\* the timestamp.
C12_FirstTickRecordsOnly ==
  (last.op = "tick" /\ last.prevTime = Undefined) =>
    /\ daysElapsed = last.days
    /\ previousTimeRef = last.time

C12_Witness ==
  /\ last.op = "tick"
  /\ last.prevTime = Undefined
  /\ last.playing
  /\ last.time = 10000
  /\ last.days.k = "fin"
  /\ last.days.v > 0

C14_EveryTickRecordsTime ==
  /\ last.op = "tick" => previousTimeRef = last.time
  /\ previousTimeRef # Undefined => previousTimeRef = now
  /\ (TickedPlaying /\ last.pausedAt # Undefined /\ ~IsNaN(last.days)) =>
        NormalIncrement(last.days, daysElapsed, last.speed,
                        last.time - last.clock)

C14_Witness ==
  /\ TickedPlaying
  /\ last.pausedAt # Undefined
  /\ last.clock - last.pausedAt >= 100
  /\ last.time - last.clock = 16
  /\ last.days.k = "fin"
  /\ last.speed.k = "fin"
  /\ daysElapsed # last.days

\* C15: at most one animation-frame callback is pending in every reachable
\* state, also after play/pause/setSpeed cancelled and re-requested the
\* frame; while mounted it is the one requestRef names.
C15_SingleChain ==
  /\ Cardinality(frames) <= 1
  /\ mounted => \E cb \in frames : frames = {cb} /\ cb.id = requestRef

C15_Witness ==
  /\ last.op \in {"toggle", "setSpeed"}
  /\ last.prevTime # Undefined
  /\ requestRef # last.ref
  /\ last.pending # {}
  /\ Cardinality(frames) = 1

\* C16: no tick uses a stale play state or speed: the pending callback
\* always carries the current isPlaying and speed, so a tick after pause
\* never advances and a playing tick after setSpeed(m) advances by
\* m * min(deltaMs, 100) / 16.
C16_NoStaleClosure ==
  /\ \A cb \in frames : cb.isPlaying = isPlaying /\ cb.speed = speed
  /\ last.op = "tick" =>
        \A cb \in last.pending :
          cb.isPlaying = last.playing /\ cb.speed = last.speed
  /\ (last.op = "tick" /\ ~last.playing) => daysElapsed = last.days
  /\ (TickedPlaying /\ ~IsNaN(last.days)) =>
        NormalIncrement(last.days, daysElapsed, last.speed, DeltaMs)

C16_Witness ==
  /\ TickedPlaying
  /\ last.speed = Lit(2)
  /\ last.days.k = "fin"
  /\ DeltaMs = 16
  /\ daysElapsed.v - last.days.v = 2 * Scale

C18_Original ==
  (selectedPlanet # NoPlanet /\ ~loading /\ fact # <<>>) =>
    shown.planet = selectedPlanet

\* C19: getPlanetFunFact never rejects: without API key, on an API
\* exception, on an empty response text and on success it resolves to a
\* non-empty string; so a loading PlanetInfo eventually stops loading.
C19_NeverRejects ==
  /\ [](shown.op = "settle" =>
          /\ ~loading
          /\ fact # <<>>
          /\ shown.outcome = "text" => fact = ReplyText(shown.planet)
          /\ shown.outcome = "empty" => fact = <<"No information available.">>
          /\ shown.outcome = "error" =>
                fact = <<"Unable to contact the Cosmic Archive (Gemini API Error).">>
          /\ shown.outcome = "nokey" =>
                fact = <<"API Key unavailable. Unable to fetch data.">>)
  /\ [](loading => inflight # {})
  /\ (loading ~> ~loading)

C19_Witness ==
  /\ shown.op = "settle"
  /\ shown.outcome = "error"
  /\ shown.planet = selectedPlanet
  /\ inflight = {}
  /\ ~loading
  /\ fact = <<"Unable to contact the Cosmic Archive (Gemini API Error).">>

====
